---------------------------- MODULE Spec2Model ----------------------------
(***************************************************************************)
(* ThalaMitra (app1.py): a Streamlit script.  Every user interaction       *)
(* re-executes the script top to bottom: sidebar (cooldown, donor upload), *)
(* dataset load and model training, KPI row, prediction tab, eligibility   *)
(* tab, leaderboard tab.  The model follows one session: the widget state  *)
(* survives between runs, st.cache_data keeps load_transfusion's result,   *)
(* everything else is recomputed by each run.                              *)
(*                                                                         *)
(* Numbers: dates are day ordinals; a scaled feature is the pair           *)
(* (num, den) of (x - data_min) / data_range; accuracy, probabilities and  *)
(* AUC are exact fractions.  The library routines the script calls         *)
(* (MinMaxScaler, train_test_split, RandomForestClassifier, sort_values)   *)
(* are modelled by their contract, with a small linear congruential        *)
(* generator standing for NumPy's seeded generator.                        *)
(***************************************************************************)
EXTENDS Integers, Sequences, FiniteSets, TLC

VARIABLES
    csv,              \* transfusion.csv on disk: NoFile or Some(sequence of records)
    today,            \* date.today()
    cooldown,         \* sidebar number_input
    uploaded_donors,  \* sidebar file_uploader: NoUpload or an uploaded table
    recency, frequency, monetary, tmonths,   \* Tab 1 number inputs
    predict_clicked,  \* st.button("Predict") of the run in progress
    last_date,        \* Tab 2 date_input
    cache,            \* st.cache_data store of load_transfusion
    pc,               \* position of the script run
    runs,             \* script executions started in this session
    loadCount,        \* executions of load_transfusion's body
    fitCount,         \* executions of model.fit
    firstTrain,       \* result of the session's first completed train_model
    donors_df,        \* roster of the run
    sidebar_msg,      \* st.sidebar.success / st.sidebar.error of the run
    df,               \* dataset of the run
    trained,          \* (model, scaler, acc, auc) of the run
    kpis,             \* the four metrics of the KPI row
    prediction,       \* Tab 1: X_in_scaled, proba, pred
    eligibility,      \* Tab 2: eligible, next_date, days_left
    board,            \* Tab 3: ranked leaderboard
    failure           \* the exception that ended the run, if any

vars == << csv, today, cooldown, uploaded_donors, recency, frequency, monetary,
           tmonths, predict_clicked, last_date, cache, pc, runs, loadCount,
           fitCount, firstTrain, donors_df, sidebar_msg, df, trained, kpis,
           prediction, eligibility, board, failure >>

-----------------------------------------------------------------------------
(* Bounds of the model *)

\* script executions followed in one session
MaxRuns == 2
\* rows of transfusion.csv
MaxRows == 6
\* roster rows carried by the model (uploaded or synthetic)
MaxRosterRows == 3
\* trees grown by the forest (the source grows 300, an even number as well)
NumTrees == 2

\* an optional value: None or Some(x)
None == << >>
Some(x) == << x >>
NoFile == None
NoUpload == None

-----------------------------------------------------------------------------
(* Program constants *)

COOLDOWN_MIN == 30
COOLDOWN_MAX == 200
COOLDOWN_DEFAULT == 90
RECENCY_MAX == 50
FREQUENCY_MAX == 50
MONETARY_MAX == 20000
TIME_MAX == 200
RECENCY_DEFAULT == 5
FREQUENCY_DEFAULT == 2
MONETARY_DEFAULT == 750
TIME_DEFAULT == 20
LAST_DATE_DEFAULT_DAYS == 120
SAMPLE_N == 200
SAMPLE_SEED == 42

\* max_value of the four number inputs of the prediction tab (min_value is 0)
InputMax == [Recency |-> RECENCY_MAX, Frequency |-> FREQUENCY_MAX,
             Monetary |-> MONETARY_MAX, Time |-> TIME_MAX]

FeatureNames == << "Recency", "Frequency", "Monetary", "Time" >>
Features == { FeatureNames[i] : i \in 1..Len(FeatureNames) }

SetMin(S) == CHOOSE x \in S : \A y \in S : x <= y
SetMax(S) == CHOOSE x \in S : \A y \in S : x >= y
Abs(x) == IF x < 0 THEN -x ELSE x

\* the sequence << F(1), ..., F(n) >>
Tab(F(_), n) == [j \in 1..n |-> F(j)] \o << >>

\* a row of the four features
ByFeature(F(_)) == [f \in Features |-> F(f)] @@ << >>

-----------------------------------------------------------------------------
(* The seeded pseudo-random generator behind random_state / np.random.seed *)

Mix(x) == (75 * x + 74) % 65537

\* the k-th draw (k >= 0) of the generator seeded with seed
Rand(seed, k) == Mix((Mix((seed % 65537) + k) * (k + 1)) % 65537)

-----------------------------------------------------------------------------
(* load_transfusion: the body behind @st.cache_data.  The column aliases  *)
(* are renamed to the five names used here and Target is cast to int.     *)

load_transfusion(file) ==
    IF file = NoFile
    THEN [status |-> "error", error |-> "FileNotFoundError"]
    ELSE [status |-> "ok", value |-> file[1]]

-----------------------------------------------------------------------------
(* MinMaxScaler *)

\* scaler.fit: per-feature data_min_ and data_max_ of the rows it is given
fit(X) ==
    ByFeature(LAMBDA f :
        LET vals == { X[i][f] : i \in 1..Len(X) }
        IN  [data_min |-> SetMin(vals), data_max |-> SetMax(vals)])

\* data_range_, with a zero range replaced by 1 (_handle_zeros_in_scale)
data_range(stat) ==
    IF stat.data_max = stat.data_min THEN 1 ELSE stat.data_max - stat.data_min

\* a faulty transform: the offset taken from data_max
transform_from_max(scaler, x) ==
    ByFeature(LAMBDA f : [num |-> x[f] - scaler[f].data_max,
                          den |-> data_range(scaler[f])])

\* scaler.transform of one row: (x - data_min) / data_range, not clipped
transform(scaler, x) ==
    ByFeature(LAMBDA f : [num |-> x[f] - scaler[f].data_min,
                          den |-> data_range(scaler[f])])

-----------------------------------------------------------------------------
(* train_test_split(test_size=0.2, random_state=42, stratify=y) *)

\* an unseeded random_state: a seed that differs from run to run
time_seed == runs

SPLIT_RANDOM_STATE == 42

FOREST_RANDOM_STATE == 42

Classes(y) == { y[i] : i \in 1..Len(y) }
ClassMembers(y, c) == { i \in 1..Len(y) : y[i] = c }

\* ceil(0.2 * n)
TestSize(n) == (n + 4) \div 5

\* _approximate_mode for the labels 0 and 1: the draws allotted to each class
ApproximateMode(y, n_draws, seed) ==
    LET n        == Len(y)
        cnt(c)   == Cardinality(ClassMembers(y, c))
        floor(c) == (n_draws * cnt(c)) \div n
        rem(c)   == (n_draws * cnt(c)) % n
        need     == n_draws - floor(0) - floor(1)
        \* the largest remainder gets the missing draw; rng.choice breaks a tie
        lucky    == IF rem(0) > rem(1) THEN 0
                    ELSE IF rem(1) > rem(0) THEN 1
                    ELSE Rand(seed, 0) % 2
    IN  [c \in {0, 1} |-> floor(c) + (IF need > 0 /\ lucky = c THEN 1 ELSE 0)] @@ << >>

\* the sort keys of the seeded permutation, one per row
PermKeys(n, seed) == Tab(LAMBDA i : Rand(seed, i), n)

\* position of row i in the seeded permutation of its class
PermPos(y, keys, i) ==
    Cardinality({ j \in 1..Len(y) :
                    /\ y[j] = y[i]
                    /\ \/ keys[j] < keys[i]
                       \/ (keys[j] = keys[i] /\ j < i) })

RECURSIVE SetToSeq(_)
\* the members of a set of integers in increasing order
SetToSeq(S) == IF S = {} THEN << >>
               ELSE << SetMin(S) >> \o SetToSeq(S \ {SetMin(S)})

\* the rows in (keep) or out of the training part, in increasing order: the
\* first n_i[c] rows of the permutation of class c are training rows
Part(y, keys, n_i, keep) ==
    SelectSeq(Tab(LAMBDA i : i, Len(y)),
              LAMBDA i : (PermPos(y, keys, i) < n_i[y[i]]) = keep)

train_test_split(y, seed) ==
    LET n         == Len(y)
        n_test    == TestSize(n)
        n_train   == n - n_test
        n_classes == Cardinality(Classes(y))
        smallest  == SetMin({ Cardinality(ClassMembers(y, c)) : c \in Classes(y) })
    IN  IF n_train = 0
        THEN [status |-> "error", fitted |-> FALSE, error |-> "ValueError: empty train set"]
        ELSE IF smallest < 2
        THEN [status |-> "error", fitted |-> FALSE, error |-> "ValueError: class with 1 member"]
        ELSE IF n_train < n_classes \/ n_test < n_classes
        THEN [status |-> "error", fitted |-> FALSE,
              error |-> "ValueError: fewer rows than classes"]
        ELSE [status |-> "ok",
              train  |-> Part(y, PermKeys(n, seed), ApproximateMode(y, n_train, seed), TRUE),
              test   |-> Part(y, PermKeys(n, seed), ApproximateMode(y, n_train, seed), FALSE)]

-----------------------------------------------------------------------------
(* RandomForestClassifier(n_estimators, random_state=42): each tree is    *)
(* grown on a bootstrap sample of the training rows and looks at one      *)
(* drawn feature; a fully grown tree answers with the label of the        *)
(* in-bag row nearest to the query on that feature.                       *)

TreeSeed(seed, t) == Rand(seed, t)

GrowTree(X_train, y_train, seed, t) ==
    LET n    == Len(X_train)
        f    == FeatureNames[(Rand(TreeSeed(seed, t), 0) % Len(FeatureNames)) + 1]
        pick(j) == (Rand(TreeSeed(seed, t), j) % n) + 1
    IN  [feature |-> f,
         bag     |-> Tab(LAMBDA j : [value |-> X_train[pick(j)][f].num,
                                     label |-> y_train[pick(j)]], n)]

\* model.fit(X_train, y_train)
forest_fit(X_train, y_train, seed) ==
    [classes |-> SetToSeq(Classes(y_train)),
     trees   |-> Tab(LAMBDA t : GrowTree(X_train, y_train, seed, t), NumTrees)]

TreeVote(tree, xs) ==
    LET d    == Tab(LAMBDA j : Abs(xs[tree.feature].num - tree.bag[j].value),
                    Len(tree.bag))
        best == CHOOSE j \in 1..Len(d) :
                    \A k \in 1..Len(d) : d[j] < d[k] \/ (d[j] = d[k] /\ j <= k)
    IN  tree.bag[best].label

\* model.predict_proba of one row: one column per class seen by fit
predict_proba(model, xs) ==
    LET T     == Len(model.trees)
        votes == Tab(LAMBDA t : TreeVote(model.trees[t], xs), T)
    IN  Tab(LAMBDA k : [num |-> Cardinality({ t \in 1..T : votes[t] = model.classes[k] }),
                        den |-> T],
            Len(model.classes))

\* model.predict of one row: classes_[argmax(proba)], the first one on a tie
ArgMax(p) ==
    CHOOSE k \in 1..Len(p) :
        \A m \in 1..Len(p) : p[k].num > p[m].num \/ (p[k].num = p[m].num /\ k <= m)

predict(model, xs) == model.classes[ArgMax(predict_proba(model, xs))]

-----------------------------------------------------------------------------
(* accuracy_score, roc_auc_score, train_model *)

NaN == [nan |-> TRUE, num |-> 0, den |-> 1]

accuracy_score(y_true, y_pred) ==
    [num |-> Cardinality({ k \in 1..Len(y_true) : y_true[k] = y_pred[k] }),
     den |-> Len(y_true)]

\* the share of (positive, negative) pairs ranked right, a tie counting half;
\* raises when y_true holds one class only
roc_auc_score(y_true, y_score) ==
    LET pos == { k \in 1..Len(y_true) : y_true[k] = 1 }
        neg == { k \in 1..Len(y_true) : y_true[k] = 0 }
        gt  == Cardinality({ pr \in pos \X neg : y_score[pr[1]].num > y_score[pr[2]].num })
        eq  == Cardinality({ pr \in pos \X neg : y_score[pr[1]].num = y_score[pr[2]].num })
    IN  IF pos = {} \/ neg = {}
        THEN [status |-> "error", error |-> "ValueError: one class in y_true"]
        ELSE [status |-> "ok",
              value  |-> [nan |-> FALSE, num |-> 2 * gt + eq,
                          den |-> 2 * Cardinality(pos) * Cardinality(neg)]]

\* the rows of X at the positions idx
Rows(X, idx) == Tab(LAMBDA k : X[idx[k]], Len(idx))

\* lines 69-74: the metrics and the returned values (with the locals the
\* claims read)
Report(model, scaler, split, y_test, y_pred, y_proba, score) ==
    [status  |-> "ok",
     model   |-> model,
     scaler  |-> scaler,
     acc     |-> accuracy_score(y_test, y_pred),
     auc     |-> IF score.status = "ok" THEN score.value ELSE NaN,
     train   |-> split.train,
     test    |-> split.test,
     y_test  |-> y_test,
     y_pred  |-> y_pred,
     y_proba |-> y_proba]

\* lines 67-68: predict and predict_proba(X_test)[:, 1], which needs a
\* second column
Evaluate(model, scaler, split, X_test, y_test) ==
    IF Len(model.classes) < 2
    THEN [status |-> "error", fitted |-> TRUE, error |-> "IndexError: index 1 out of bounds"]
    ELSE Report(model, scaler, split, y_test,
                Tab(LAMBDA k : predict(model, X_test[k]), Len(X_test)),
                Tab(LAMBDA k : predict_proba(model, X_test[k])[2], Len(X_test)),
                roc_auc_score(y_test,
                    Tab(LAMBDA k : predict_proba(model, X_test[k])[2], Len(X_test))))

\* lines 60-66: the split of the scaled rows and the fit on the training part
SplitAndFit(scaler, X_scaled, y, split) ==
    IF split.status = "error" THEN split
    ELSE Evaluate(forest_fit(Rows(X_scaled, split.train), Rows(y, split.train),
                             FOREST_RANDOM_STATE),
                  scaler, split, Rows(X_scaled, split.test), Rows(y, split.test))

\* line 58: X_scaled = scaler.fit_transform(X), X being every row of df
FitTransform(d, scaler) ==
    SplitAndFit(scaler,
                Tab(LAMBDA i : transform(scaler, d[i]), Len(d)),
                Tab(LAMBDA i : d[i].Target, Len(d)),
                train_test_split(Tab(LAMBDA i : d[i].Target, Len(d)),
                                 SPLIT_RANDOM_STATE))

train_model(d) ==
    IF Len(d) = 0
    THEN [status |-> "error", fitted |-> FALSE, error |-> "ValueError: 0 samples"]
    ELSE FitTransform(d, fit(d))

-----------------------------------------------------------------------------
(* compute_eligibility *)

\* a faulty compute_eligibility: eligible only after the date has passed
compute_eligibility_strict(last_donation, cooldown_days) ==
    LET next_eligible == last_donation + cooldown_days
        eligible      == today > next_eligible
    IN  [eligible      |-> eligible,
         next_eligible |-> next_eligible,
         days_left     |-> IF eligible THEN 0 ELSE next_eligible - today]

compute_eligibility(last_donation, cooldown_days) ==
    LET next_eligible == last_donation + cooldown_days
        eligible      == today >= next_eligible
    IN  [eligible      |-> eligible,
         next_eligible |-> next_eligible,
         days_left     |-> IF eligible THEN 0 ELSE next_eligible - today]

-----------------------------------------------------------------------------
(* Rosters.  A roster row holds name, last_donation_date, total_donations *)
(* and contribution_score; the model carries the first MaxRosterRows rows *)
(* of a roster and its length n.                                          *)

Required == { "name", "gender", "blood_group", "last_donation_date",
              "total_donations" }

Least(a, b) == IF a < b THEN a ELSE b

gen_sample_donors(n, seed) ==
    [source |-> "synthetic", n |-> n, seed |-> seed,
     rows |-> Tab(LAMBDA i :
        LET last_days_ago == 1 + (Rand(seed, 2 * i) % 364)
            total_units   == 1 + (Rand(seed, 2 * i + 1) % 14)
        IN  [name               |-> i,
             last_donation_date |-> today - last_days_ago,
             total_donations    |-> total_units,
             contribution_score |-> total_units * 10 + (365 - last_days_ago)],
        Least(n, MaxRosterRows))]

\* a faulty parse_donors_csv: the required-columns test left out
parse_donors_csv_unchecked(file) ==
    IF "last_donation_date" \notin file.columns
    THEN [status |-> "error", error |-> "ValueError: missing parse_dates column"]
    ELSE [status |-> "ok",
          value |-> [source |-> "uploaded", n |-> Len(file.rows), seed |-> 0,
                     rows |-> Tab(LAMBDA i :
                        [file.rows[i] EXCEPT !.contribution_score =
                            IF "contribution_score" \in file.columns THEN @
                            ELSE file.rows[i].total_donations * 10],
                        Len(file.rows))]]

parse_donors_csv(file) ==
    IF "last_donation_date" \notin file.columns
    THEN [status |-> "error", error |-> "ValueError: missing parse_dates column"]
    ELSE IF Required \ file.columns # {}
    THEN [status |-> "error", error |-> "ValueError: Missing columns in donors CSV"]
    ELSE [status |-> "ok",
          value |-> [source |-> "uploaded", n |-> Len(file.rows), seed |-> 0,
                     rows |-> Tab(LAMBDA i :
                        [file.rows[i] EXCEPT !.contribution_score =
                            IF "contribution_score" \in file.columns THEN @
                            ELSE file.rows[i].total_donations * 10],
                        Len(file.rows))]]

\* sort_values("contribution_score", ascending=False) with the default
\* kind="quicksort", which is not stable: any order of the rows by
\* descending score; order[r] is the original position of the row ranked r
SortOrders(rows) ==
    { order \in Permutations(1..Len(rows)) :
        \A a \in 1..Len(rows) - 1 :
              rows[order[a]].contribution_score >= rows[order[a + 1]].contribution_score }

-----------------------------------------------------------------------------
(* Inputs *)

Row(r, f, m, t, y) ==
    [Recency |-> r, Frequency |-> f, Monetary |-> m, Time |-> t, Target |-> y]

\* records a transfusion.csv is made of
RecordChoices ==
    { Row(0, 50, 12500, 98, 1), Row(74, 1, 250, 74, 0), Row(2, 2, 500, 4, 0) }

\* every transfusion.csv of at most MaxRows records, or none
Datasets ==
    {NoFile} \cup { Some(d) : d \in UNION { [1..n -> RecordChoices] : n \in 0..MaxRows } }

\* no file, an empty table, a table of one class, a table of two classes
SessionDatasets ==
    { NoFile,
      Some(<< >>),
      Some([i \in 1..MaxRows |-> Row(74, 1, 250, 74, 0)]),
      Some([i \in 1..MaxRows |-> IF i % 2 = 1 THEN Row(0, 50, 12500, 98, 1)
                                 ELSE IF i % 4 = 0 THEN Row(2, 2, 500, 4, 0)
                                 ELSE Row(74, 1, 250, 74, 0)]) }

Todays == { 20000 }

CooldownChoices == { COOLDOWN_MIN, COOLDOWN_DEFAULT, COOLDOWN_MAX }

\* days between the chosen last donation date and today
DaysAgoChoices == { 0, 10, 29, 30, 90, LAST_DATE_DEFAULT_DAYS, 200, 201 }

\* an uploaded table: its header and its rows
Upload(cols, units) ==
    [columns |-> cols,
     rows |-> [i \in 1..Len(units) |->
                  [name               |-> i,
                   last_donation_date |-> SetMin(Todays) - 50 * i,
                   total_donations    |-> units[i],
                   contribution_score |-> 100 - 10 * units[i]]]]

\* complete tables of up to MaxRosterRows rows, with and without the optional
\* column, and tables lacking one required column
Uploads ==
    { Upload(cols, units) :
        cols \in { Required, Required \cup {"contribution_score"} },
        units \in UNION { [1..n -> 1..2] : n \in 0..MaxRosterRows } }
    \cup { Upload(Required \ {c}, [i \in 1..MaxRosterRows |-> 1 + (i % 2)]) :
                c \in Required }

-----------------------------------------------------------------------------
(* The session *)

Start ==
    /\ today \in Todays
    /\ cooldown = COOLDOWN_DEFAULT
    /\ uploaded_donors = NoUpload
    /\ recency = RECENCY_DEFAULT
    /\ frequency = FREQUENCY_DEFAULT
    /\ monetary = MONETARY_DEFAULT
    /\ tmonths = TIME_DEFAULT
    /\ predict_clicked = FALSE
    /\ last_date = today - LAST_DATE_DEFAULT_DAYS
    /\ cache = None
    /\ pc = "sidebar"
    /\ runs = 1
    /\ loadCount = 0
    /\ fitCount = 0
    /\ firstTrain = None
    /\ donors_df = None
    /\ sidebar_msg = None
    /\ df = None
    /\ trained = None
    /\ kpis = None
    /\ prediction = None
    /\ eligibility = None
    /\ board = None
    /\ failure = None

\* a session over one of the SessionDatasets
Init == csv \in SessionDatasets /\ Start

\* a session over any dataset
InitTrain == csv \in Datasets /\ Start

widgets == << cooldown, uploaded_donors, recency, frequency, monetary, tmonths,
              predict_clicked, last_date >>
session == << cache, runs, loadCount, fitCount, firstTrain >>

\* lines 129-165: cooldown input, donor upload with its fallback, sample download
Sidebar ==
    /\ pc = "sidebar"
    /\ IF uploaded_donors # NoUpload
       THEN \E r \in { parse_donors_csv(uploaded_donors[1]) } :
                IF r.status = "ok"
                THEN /\ donors_df' = Some(r.value)
                     /\ sidebar_msg' = Some([kind |-> "success", text |-> "Donor list uploaded."])
                ELSE /\ sidebar_msg' = Some([kind |-> "error", text |-> r.error])
                     /\ donors_df' = Some(gen_sample_donors(SAMPLE_N, SAMPLE_SEED))
       ELSE /\ donors_df' = Some(gen_sample_donors(SAMPLE_N, SAMPLE_SEED))
            /\ sidebar_msg' = None
    /\ pc' = "load"
    /\ UNCHANGED << csv, today, widgets, session, df, trained, kpis, prediction,
                    eligibility, board, failure >>

\* line 173: load_transfusion behind st.cache_data; an exception ends the run
LoadData ==
    /\ pc = "load"
    /\ IF cache # None
       THEN /\ df' = cache
            /\ pc' = "train"
            /\ UNCHANGED << cache, loadCount, failure >>
       ELSE \E r \in { load_transfusion(csv) } :
                /\ loadCount' = loadCount + 1
                /\ IF r.status = "ok"
                   THEN /\ cache' = Some(r.value)
                        /\ df' = Some(r.value)
                        /\ pc' = "train"
                        /\ UNCHANGED failure
                   ELSE /\ failure' = Some([at |-> "load_transfusion", error |-> r.error])
                        /\ pc' = "crashed"
                        /\ UNCHANGED << cache, df >>
    /\ UNCHANGED << csv, today, widgets, runs, fitCount, firstTrain, donors_df,
                    sidebar_msg, trained, kpis, prediction, eligibility, board >>

\* line 174: train_model(df), called by every run; an exception ends the run
Train ==
    /\ pc = "train"
    /\ \E r \in { train_model(df[1]) } :
           /\ fitCount' = IF r.status = "ok" \/ r.fitted THEN fitCount + 1 ELSE fitCount
           /\ IF r.status = "ok"
              THEN /\ trained' = Some(r)
                   /\ firstTrain' = IF firstTrain = None THEN Some(r) ELSE firstTrain
                   /\ pc' = "kpis"
                   /\ UNCHANGED failure
              ELSE /\ failure' = Some([at |-> "train_model", error |-> r.error])
                   /\ pc' = "crashed"
                   /\ UNCHANGED << trained, firstTrain >>
    /\ UNCHANGED << csv, today, widgets, cache, runs, loadCount, donors_df,
                    sidebar_msg, df, kpis, prediction, eligibility, board >>

\* the text of the ROC AUC metric
AucText(auc) == IF auc.nan THEN [text |-> "-", pct |-> NaN]
                           ELSE [text |-> "pct", pct |-> auc]

\* lines 176-189: the KPI row
TopKpis ==
    /\ pc = "kpis"
    /\ kpis' = Some([accuracy |-> trained[1].acc,
                roc_auc  |-> AucText(trained[1].auc),
                eligible_today |->
                    Cardinality({ i \in 1..Len(donors_df[1].rows) :
                        compute_eligibility(donors_df[1].rows[i].last_donation_date,
                                            cooldown).eligible }),
                total_donors |-> donors_df[1].n])
    /\ pc' = "tab1"
    /\ UNCHANGED << csv, today, widgets, session, donors_df, sidebar_msg, df,
                    trained, prediction, eligibility, board, failure >>

\* int(proba >= 0.5)
Threshold(p) == IF 2 * p.num >= p.den THEN 1 ELSE 0

\* lines 200-224: the prediction tab
Tab1 ==
    /\ pc = "tab1"
    /\ \E X_in \in { [Recency |-> recency, Frequency |-> frequency,
                       Monetary |-> monetary, Time |-> tmonths] } :
       \E X_in_scaled \in { transform(trained[1].scaler, X_in) } :
          IF predict_clicked
          THEN \E proba \in { predict_proba(trained[1].model, X_in_scaled)[2] } :
                  prediction' = Some([X_in |-> X_in, X_in_scaled |-> X_in_scaled,
                                      proba |-> Some(proba),
                                      pred |-> Some(Threshold(proba))])
          ELSE prediction' = Some([X_in |-> X_in, X_in_scaled |-> X_in_scaled,
                                   proba |-> None, pred |-> None])
    /\ pc' = "tab2"
    /\ UNCHANGED << csv, today, widgets, session, donors_df, sidebar_msg, df,
                    trained, kpis, eligibility, board, failure >>

\* lines 227-244: the eligibility checker
Tab2 ==
    /\ pc = "tab2"
    /\ eligibility' = Some(compute_eligibility(last_date, cooldown))
    /\ pc' = "tab3"
    /\ UNCHANGED << csv, today, widgets, session, donors_df, sidebar_msg, df,
                    trained, kpis, prediction, board, failure >>

\* lines 247-264: the leaderboard
Tab3 ==
    /\ pc = "tab3"
    /\ \E order \in SortOrders(donors_df[1].rows) :
          LET ranked == Tab(LAMBDA r :
                            [rank |-> r, pos |-> order[r],
                             name |-> donors_df[1].rows[order[r]].name,
                             contribution_score |->
                                 donors_df[1].rows[order[r]].contribution_score],
                            Len(donors_df[1].rows))
          IN  board' = Some(ranked)
    /\ pc' = "tab45"
    /\ UNCHANGED << csv, today, widgets, session, donors_df, sidebar_msg, df,
                    trained, kpis, prediction, eligibility, failure >>

\* lines 267-326: notification and e-RaktKosh tabs, footer; the run ends
Tab45 ==
    /\ pc = "tab45"
    /\ pc' = "done"
    /\ UNCHANGED << csv, today, widgets, session, donors_df, sidebar_msg, df,
                    trained, kpis, prediction, eligibility, board, failure >>

\* a run starts from fresh script variables
Rerun ==
    /\ pc \in {"done", "crashed"}
    /\ runs < MaxRuns
    /\ runs' = runs + 1
    /\ pc' = "sidebar"
    /\ donors_df' = None
    /\ sidebar_msg' = None
    /\ df' = None
    /\ trained' = None
    /\ kpis' = None
    /\ prediction' = None
    /\ eligibility' = None
    /\ board' = None
    /\ failure' = None
    /\ UNCHANGED << csv, today, cache, loadCount, fitCount, firstTrain >>

SetCooldown ==
    /\ Rerun
    /\ \E c \in CooldownChoices \ {cooldown} : cooldown' = c
    /\ predict_clicked' = FALSE
    /\ UNCHANGED << uploaded_donors, recency, frequency, monetary, tmonths, last_date >>

SetUpload ==
    /\ Rerun
    /\ \E u \in ({ Some(f) : f \in Uploads } \cup {NoUpload}) \ {uploaded_donors} :
          uploaded_donors' = u
    /\ predict_clicked' = FALSE
    /\ UNCHANGED << cooldown, recency, frequency, monetary, tmonths, last_date >>

\* one of the four number inputs is moved to an end of its range or back
SetFeatures ==
    /\ Rerun
    /\ \/ /\ recency' \in {RECENCY_DEFAULT, RECENCY_MAX} \ {recency}
          /\ UNCHANGED << frequency, monetary, tmonths >>
       \/ /\ frequency' \in {0, FREQUENCY_DEFAULT} \ {frequency}
          /\ UNCHANGED << recency, monetary, tmonths >>
       \/ /\ monetary' \in {MONETARY_DEFAULT, MONETARY_MAX} \ {monetary}
          /\ UNCHANGED << recency, frequency, tmonths >>
       \/ /\ tmonths' \in {TIME_DEFAULT, TIME_MAX} \ {tmonths}
          /\ UNCHANGED << recency, frequency, monetary >>
    /\ predict_clicked' = FALSE
    /\ UNCHANGED << cooldown, uploaded_donors, last_date >>

ClickPredict ==
    /\ Rerun
    /\ predict_clicked' = TRUE
    /\ UNCHANGED << cooldown, uploaded_donors, recency, frequency, monetary, tmonths,
                    last_date >>

SetLastDate ==
    /\ Rerun
    /\ \E d \in DaysAgoChoices : last_date' = today - d /\ last_date' # last_date
    /\ predict_clicked' = FALSE
    /\ UNCHANGED << cooldown, uploaded_donors, recency, frequency, monetary, tmonths >>

Next ==
    \/ Sidebar
    \/ LoadData
    \/ Train
    \/ TopKpis
    \/ Tab1
    \/ Tab2
    \/ Tab3
    \/ Tab45
    \/ SetCooldown
    \/ SetUpload
    \/ SetFeatures
    \/ ClickPredict
    \/ SetLastDate

Spec == Init /\ [][Next]_vars

\* the runs of the script over every dataset, the user acting on Tab 1 only
NextTrain ==
    \/ Sidebar
    \/ LoadData
    \/ Train
    \/ TopKpis
    \/ Tab1
    \/ Tab2
    \/ Tab3
    \/ Tab45
    \/ SetFeatures
    \/ ClickPredict

SpecTrain == InitTrain /\ [][NextTrain]_vars

-----------------------------------------------------------------------------
(* Properties of the session (Spec) *)

Max(a, b) == IF a > b THEN a ELSE b

\* C1: whenever the eligibility checker has run, its result is
\* next_eligible = last_donation_date + cooldown_days, eligible = (today >=
\* next_eligible) and days_left = max(0, next_eligible - today), for a
\* cooldown in 30..200; with a cooldown of 90, a donation 120 days ago is
\* eligible with 0 days left and a donation 10 days ago is not, with 80 left.
C1_Eligibility ==
    eligibility # None =>
        LET e    == eligibility[1]
            next == last_date + cooldown
        IN  /\ cooldown \in COOLDOWN_MIN..COOLDOWN_MAX
            /\ e.next_eligible = next
            /\ e.eligible = (today >= next)
            /\ e.days_left = Max(0, next - today)
            /\ (cooldown = 90 /\ last_date = today - 120) =>
                    (e.eligible /\ e.days_left = 0)
            /\ (cooldown = 90 /\ last_date = today - 10) =>
                    (~e.eligible /\ e.days_left = 80)

\* the checker has run on a donation 10 days ago under a cooldown of 90
C1_Witness ==
    /\ eligibility # None
    /\ cooldown = 90
    /\ last_date = today - 10
    /\ eligibility[1] = [eligible |-> FALSE, next_eligible |-> today + 80,
                         days_left |-> 80]

LacksRequired ==
    uploaded_donors # NoUpload /\ Required \ uploaded_donors[1].columns # {}

\* C2: once the sidebar has handled an upload that lacks a required column,
\* an error is shown, the roster of the run is the synthetic default (200
\* rows, seed 42), the upload has not ended the run, and the KPI row and
\* the leaderboard are computed from the synthetic roster.
C2_MissingColumnFallback ==
    (LacksRequired /\ pc # "sidebar") =>
        /\ sidebar_msg # None
        /\ sidebar_msg[1].kind = "error"
        /\ donors_df = Some(gen_sample_donors(200, 42))
        /\ failure # None => failure[1].at \in {"load_transfusion", "train_model"}
        /\ kpis # None => kpis[1].total_donors = 200
        /\ board # None =>
              \A r \in 1..Len(board[1]) :
                 /\ board[1][r].name =
                        gen_sample_donors(200, 42).rows[board[1][r].pos].name
                 /\ board[1][r].contribution_score =
                        gen_sample_donors(200, 42).rows[board[1][r].pos].contribution_score

\* a run that got an upload without blood_group has reached its end
C2_Witness ==
    /\ uploaded_donors # NoUpload
    /\ "blood_group" \notin uploaded_donors[1].columns
    /\ pc = "done"
    /\ sidebar_msg # None
    /\ sidebar_msg[1].kind = "error"
    /\ donors_df # None
    /\ donors_df[1].source = "synthetic"
    /\ board # None

\* C6: the leaderboard ranks the roster 1..n by descending
\* contribution_score, rank 1 holding the maximum, and rows of equal score
\* keep their original relative order.
C6_StableRanking ==
    board # None =>
        LET b == board[1]
            n == Len(donors_df[1].rows)
        IN  /\ Len(b) = n
            /\ \A r \in 1..n : b[r].rank = r
            /\ { b[r].pos : r \in 1..n } = 1..n
            /\ \A r \in 1..n :
                  b[r].contribution_score = donors_df[1].rows[b[r].pos].contribution_score
            /\ \A r \in 1..n : b[1].contribution_score >= b[r].contribution_score
            /\ \A q, r \in 1..n :
                  q < r => b[q].contribution_score >= b[r].contribution_score
            /\ \A q, r \in 1..n :
                  (q < r /\ b[q].contribution_score = b[r].contribution_score)
                      => b[q].pos < b[r].pos

\* C7: a run in which load_transfusion or train_model failed has still
\* executed the eligibility checker.
C7_EligibilityAfterFailure ==
    (pc \in {"done", "crashed"} /\ failure # None) => eligibility # None

\* C9: in a session that holds a trained model, the dataset has been loaded
\* once and the classifier has been fitted once, however many runs of the
\* script there were.
C9_LoadedAndTrainedOnce ==
    firstTrain # None => (loadCount = 1 /\ fitCount = 1)

-----------------------------------------------------------------------------
(* Properties of training and scoring (SpecTrain) *)

Targets(d) == Tab(LAMBDA i : d[i].Target, Len(d))

\* C3: after train_model, each feature's fitted min and max are the min and
\* max over the training-split rows; no holdout row contributes to them.
C3_StatsFromTrainingOnly ==
    trained # None =>
        \A f \in Features :
            LET vals == { df[1][trained[1].train[k]][f] :
                            k \in 1..Len(trained[1].train) }
            IN  /\ trained[1].scaler[f].data_min = SetMin(vals)
                /\ trained[1].scaler[f].data_max = SetMax(vals)

InUnitRange(v) == 0 <= v.num /\ v.num <= v.den

C5_ThresholdConsistency ==
    /\ trained # None =>
          \A k \in 1..Len(trained[1].y_proba) :
              /\ InUnitRange(trained[1].y_proba[k])
              /\ (trained[1].y_pred[k] = 1) <=>
                     (2 * trained[1].y_proba[k].num >= trained[1].y_proba[k].den)
    /\ (prediction # None /\ prediction[1].proba # None) =>
          /\ InUnitRange(prediction[1].proba[1])
          /\ (prediction[1].pred[1] = 1) <=>
                 (2 * prediction[1].proba[1].num >= prediction[1].proba[1].den)

HoldoutClasses ==
    LET y     == Targets(df[1])
        split == train_test_split(y, SPLIT_RANDOM_STATE)
    IN  IF split.status = "ok" THEN { y[split.test[k]] : k \in 1..Len(split.test) }
        ELSE {}

\* C10: when the holdout holds one class, train_model returns a model and an
\* accuracy with auc = NaN and the KPI row shows the dash; when it holds
\* both classes the AUC is a number and is shown.
C10_UndefinedAucReported ==
    (df # None /\ Len(df[1]) > 0 /\ pc \notin {"sidebar", "load", "train"}) =>
        /\ Cardinality(HoldoutClasses) = 1 =>
              /\ failure = None
              /\ trained # None
              /\ trained[1].auc = NaN
              /\ kpis # None => kpis[1].roc_auc.text = "-"
        /\ Cardinality(HoldoutClasses) = 2 =>
              /\ trained # None
              /\ ~trained[1].auc.nan
              /\ kpis # None => kpis[1].roc_auc = [text |-> "pct", pct |-> trained[1].auc]

=============================================================================
